---- MODULE Spec2Model ----
(***************************************************************************)
(* MoltPit agent SDK (packages/agent-sdk-python): the Agent classes of     *)
(* moltpit_agent/agent.py, the two example bots, and the HTTP runtime of   *)
(* moltpit_agent/server.py, as one state machine.                          *)
(*                                                                         *)
(* Python values are tagged records ([py |-> ...]); JSON text on the wire  *)
(* is its own syntax tree ([j |-> ...]); json_loads and json_dumps convert *)
(* between the two.  Strings are TLA+ strings; Chars gives the characters  *)
(* of the strings the code slices or searches.                             *)
(***************************************************************************)
EXTENDS Integers, Sequences, FiniteSets, TLC

\* ------------------------------------------------------------------ bounds

\* Hook calls dispatched in one run of the model.
MaxCalls == 4

\* Longest validMoves list a request carries.
MaxMoves == 2

\* Clients that connect to the server's port.
Clients == {"c1", "c2"}

\* ------------------------------------------------------------ Python values

PyNone == [py |-> "NoneType"]

PyStr(s) == [py |-> "str", v |-> s]

PyList(items) == [py |-> "list", v |-> items]

PyDict(members) == [py |-> "dict", v |-> members]

\* An instance of a class json does not know (agent.py's MoveResponse dataclass).
PyInstance(cls) == [py |-> "object", cls |-> cls]

EmptyMembers == [k \in {} |-> PyNone]

\* Python truthiness of a value: bool(v).
Truthy(v) ==
    CASE v.py = "NoneType" -> FALSE
      [] v.py = "str" -> v.v # ""
      [] v.py = "list" -> Len(v.v) > 0
      [] v.py = "dict" -> DOMAIN v.v # {}
      [] OTHER -> TRUE

\* --------------------------------------------------------------- JSON text

JNull == [j |-> "null"]

JString(s) == [j |-> "string", s |-> s]

JArray(items) == [j |-> "array", items |-> items]

JObject(members) == [j |-> "object", members |-> members]

NoMembers == [k \in {} |-> JNull]

\* json.loads on a well-formed document: null -> None, string -> str,
\* array -> list, object -> dict.
RECURSIVE FromJson(_)
FromJson(doc) ==
    CASE doc.j = "null" -> PyNone
      [] doc.j = "string" -> PyStr(doc.s)
      [] doc.j = "array" -> PyList([i \in DOMAIN doc.items |-> FromJson(doc.items[i])])
      [] doc.j = "object" ->
            PyDict([k \in DOMAIN doc.members |-> FromJson(doc.members[k])])

\* Whether json.dumps accepts the value: None, str, list and dict of such.
RECURSIVE Serializable(_)
Serializable(v) ==
    CASE v.py = "NoneType" -> TRUE
      [] v.py = "str" -> TRUE
      [] v.py = "list" -> \A i \in DOMAIN v.v : Serializable(v.v[i])
      [] v.py = "dict" -> \A k \in DOMAIN v.v : Serializable(v.v[k])
      [] OTHER -> FALSE

\* The document json.dumps writes for a serializable value: None -> null, and a
\* dict key is written whatever its value.
RECURSIVE ToJson(_)
ToJson(v) ==
    CASE v.py = "NoneType" -> JNull
      [] v.py = "str" -> JString(v.v)
      [] v.py = "list" -> JArray([i \in DOMAIN v.v |-> ToJson(v.v[i])])
      [] v.py = "dict" -> JObject([k \in DOMAIN v.v |-> ToJson(v.v[k])])

\* The request body as bytes on the wire: nothing at all (no Content-Length),
\* bytes that are no JSON, or a JSON document.
EmptyBody == [raw |-> "empty"]

GarbageBody == [raw |-> "garbage"]

JsonBody(doc) == [raw |-> "json", doc |-> doc]

\* The result of a Python call: a returned value or a raised Exception, with
\* str(e) as msg.
Returned(v) == [raised |-> FALSE, value |-> v]

Raised(type, msg) == [raised |-> TRUE, type |-> type, msg |-> msg]

\* json.loads(body.decode("utf-8")).
json_loads(body) ==
    IF body.raw = "json"
    THEN Returned(FromJson(body.doc))
    ELSE Raised("JSONDecodeError", "Expecting value: line 1 column 1 (char 0)")

\* json.dumps(data).
json_dumps(data) ==
    IF Serializable(data)
    THEN Returned(ToJson(data))
    ELSE Raised("TypeError", "Object is not JSON serializable")

\* ------------------------------------------------------------------ strings

\* The characters of the strings the code searches ('x' in san) or slices
\* (move_str[:2]).
Chars ==
    ("" :> <<>>) @@
    ("a3" :> <<"a", "3">>) @@
    ("e4" :> <<"e", "4">>) @@
    ("h4" :> <<"h", "4">>) @@
    ("Qh5+" :> <<"Q", "h", "5", "+">>) @@
    ("dxe5" :> <<"d", "x", "e", "5">>) @@
    ("e2e4" :> <<"e", "2", "e", "4">>) @@
    ("e2" :> <<"e", "2">>) @@
    ("a7a8q" :> <<"a", "7", "a", "8", "q">>) @@
    ("a7" :> <<"a", "7">>) @@
    ("a8" :> <<"a", "8">>) @@
    ("q" :> <<"q">>) @@
    ("(none)" :> <<"(", "n", "o", "n", "e", ")">>) @@
    ("(n" :> <<"(", "n">>) @@
    ("on" :> <<"o", "n">>) @@
    ("e" :> <<"e">>)

\* The string made of the given characters.
Str(cs) == CHOOSE s \in DOMAIN Chars : Chars[s] = cs

\* c in s
Contains(s, c) == \E i \in DOMAIN Chars[s] : Chars[s][i] = c

Min(a, b) == IF a < b THEN a ELSE b

\* s[lo:hi], for 0 <= lo <= hi
Slice(s, lo, hi) == Str(SubSeq(Chars[s], lo + 1, Min(hi, Len(Chars[s]))))

\* ----------------------------------------------------------------- agent.py

\* d.get(key, default) on a dict.
Get(d, key, default) == IF key \in DOMAIN d.v THEN d.v[key] ELSE default

\* str(e) of the AttributeError raised by v.get on a value that is no dict.
NoAttributeGet(v) ==
    CASE v.py = "list" -> "'list' object has no attribute 'get'"
      [] v.py = "str" -> "'str' object has no attribute 'get'"
      [] v.py = "NoneType" -> "'NoneType' object has no attribute 'get'"
      [] OTHER -> "object has no attribute 'get'"

\* What a hook does: it returns or raises, and leaves the agent in state self.
Ret(v, self) == [raised |-> FALSE, value |-> v, self |-> self]

Exc(type, msg, self) == [raised |-> TRUE, type |-> type, msg |-> msg, self |-> self]

\* MoveResponse.to_dict: trashTalk only when trash_talk is truthy.
MoveResponse_to_dict(action, trash_talk) ==
    IF Truthy(trash_talk)
    THEN PyDict([action |-> action, trashTalk |-> trash_talk])
    ELSE PyDict([action |-> action])

\* {"from": move["from"], "to": move["to"], "promotion": move.get("promotion")}:
\* KeyError when the move lacks from or to.
FromToPromotion(move) ==
    IF "from" \notin DOMAIN move.v THEN Raised("KeyError", "'from'")
    ELSE IF "to" \notin DOMAIN move.v THEN Raised("KeyError", "'to'")
    ELSE Returned(PyDict([from |-> move.v["from"], to |-> move.v["to"],
                          promotion |-> Get(move, "promotion", PyNone)]))

\* Agent.on_game_start and Agent.on_game_end: no-ops.
Agent_on_game_start(self, game_state) == {Ret(PyNone, self)}

Agent_on_game_end(self, result) == {Ret(PyNone, self)}

\* ChessAgent.make_move without its guard: no valid move gives a null action.
ChessAgent_make_move_unguarded(self, game_state) ==
    IF game_state.py # "dict"
    THEN {Exc("AttributeError", NoAttributeGet(game_state), self)}
    ELSE IF ~Truthy(Get(game_state, "validMoves", PyNone))
    THEN {Ret(PyDict([action |-> PyNone]), self)}
    ELSE LET action == FromToPromotion(game_state.v["validMoves"].v[1])
         IN  IF action.raised
             THEN {Exc(action.type, action.msg, self)}
             ELSE {Ret(PyDict([action |-> action.value]), self)}

\* ChessAgent.make_move: the first valid move.
ChessAgent_make_move(self, game_state) ==
    IF game_state.py # "dict"
    THEN {Exc("AttributeError", NoAttributeGet(game_state), self)}
    ELSE IF ~Truthy(Get(game_state, "validMoves", PyNone))
    THEN {Exc("ValueError", "No valid moves available", self)}
    ELSE LET action == FromToPromotion(game_state.v["validMoves"].v[1])
         IN  IF action.raised
             THEN {Exc(action.type, action.msg, self)}
             ELSE {Ret(PyDict([action |-> action.value]), self)}

\* TriviaAgent.make_move
TriviaAgent_make_move(self, game_state) ==
    {Exc("NotImplementedError", "Trivia agent not yet implemented", self)}

\* A game_type property that reads instance state the hooks change.
game_type_from_state(self) ==
    IF self.cls = "TriviaAgent" THEN "trivia"
    ELSE IF "move_count" \in DOMAIN self /\ self.move_count > 0 THEN "chess960"
    ELSE "chess"

\* game_type of each class.
game_type(self) == IF self.cls = "TriviaAgent" THEN "trivia" ELSE "chess"

\* ------------------------------------------------- examples/simple_chess_bot.py

Range(f) == {f[i] : i \in DOMAIN f}

\* random.choice(seq): any member.
RandomChoice(seq) == Range(seq)

\* self.trash_talk_lines: six lines, and None twice.
trash_talk_lines ==
    << PyStr("Claws out!"),
       PyStr("Is that really your best move?"),
       PyStr("My circuits are barely warming up."),
       PyStr("Interesting choice... for a hatchling."),
       PyStr("You're making this too easy."),
       PyStr("Into the Pit with you!"),
       PyNone,
       PyNone >>

\* The opening window of _select_move: self.move_count < 10.
OpeningWindow == 10

CenterSquares == {"e4", "d4", "e5", "d5", "c4", "f4"}

IsCapture(m) == Contains(Get(m, "san", PyStr("")).v, "x")

IsCheck(m) ==
    \/ Contains(Get(m, "san", PyStr("")).v, "+")
    \/ Contains(Get(m, "san", PyStr("")).v, "#")

select_move_checks_first(self, moves) ==
    LET captures == SelectSeq(moves, IsCapture)
        checks == SelectSeq(moves, IsCheck)
        InCenter(m) == m.v["to"].v \in CenterSquares
        center_moves == SelectSeq(moves, InCenter)
    IN  IF checks # <<>> THEN {Returned(m) : m \in RandomChoice(checks)}
        ELSE IF captures # <<>> THEN {Returned(m) : m \in RandomChoice(captures)}
        ELSE IF self.move_count < OpeningWindow
                /\ \E i \in DOMAIN moves : "to" \notin DOMAIN moves[i].v
        THEN {Raised("KeyError", "'to'")}
        ELSE IF self.move_count < OpeningWindow /\ center_moves # <<>>
        THEN {Returned(m) : m \in RandomChoice(center_moves)}
        ELSE {Returned(m) : m \in RandomChoice(moves)}

\* SimpleChessBot._select_move: the moves random.choice may return, or the
\* KeyError of m["to"] on a move without to.
select_move(self, moves) ==
    LET captures == SelectSeq(moves, IsCapture)
        checks == SelectSeq(moves, IsCheck)
        InCenter(m) == m.v["to"].v \in CenterSquares
        center_moves == SelectSeq(moves, InCenter)
    IN  IF captures # <<>> THEN {Returned(m) : m \in RandomChoice(captures)}
        ELSE IF checks # <<>> THEN {Returned(m) : m \in RandomChoice(checks)}
        ELSE IF self.move_count < OpeningWindow
                /\ \E i \in DOMAIN moves : "to" \notin DOMAIN moves[i].v
        THEN {Raised("KeyError", "'to'")}
        ELSE IF self.move_count < OpeningWindow /\ center_moves # <<>>
        THEN {Returned(m) : m \in RandomChoice(center_moves)}
        ELSE {Returned(m) : m \in RandomChoice(moves)}

\* SimpleChessBot.make_move: the counter goes up first, then the checks.
SimpleChessBot_make_move(self, game_state) ==
    LET counted == [self EXCEPT !.move_count = @ + 1]
    IN  IF game_state.py # "dict"
        THEN {Exc("AttributeError", NoAttributeGet(game_state), counted)}
        ELSE IF ~Truthy(Get(game_state, "validMoves", PyList(<<>>)))
        THEN {Exc("ValueError", "No valid moves!", counted)}
        ELSE UNION {
               IF best_move.raised
               THEN {Exc(best_move.type, best_move.msg, counted)}
               ELSE LET action == FromToPromotion(best_move.value)
                    IN  IF action.raised
                        THEN {Exc(action.type, action.msg, counted)}
                        ELSE {Ret(PyDict([action |-> action.value,
                                          trashTalk |-> trash_talk]), counted)
                                : trash_talk \in RandomChoice(trash_talk_lines)}
               : best_move \in select_move(counted, game_state.v["validMoves"].v) }

\* on_game_start without the reset of the counter.
SimpleChessBot_on_game_start_without_reset(self, game_state) ==
    IF game_state.py # "dict"
    THEN {Exc("AttributeError", NoAttributeGet(game_state), self)}
    ELSE {Ret(PyNone, self)}

\* SimpleChessBot.on_game_start: the counter is reset, then yourColor is read
\* for the print.
SimpleChessBot_on_game_start(self, game_state) ==
    LET reset == [self EXCEPT !.move_count = 0]
    IN  IF game_state.py # "dict"
        THEN {Exc("AttributeError", NoAttributeGet(game_state), reset)}
        ELSE {Ret(PyNone, reset)}

\* SimpleChessBot.on_game_end: a print.
SimpleChessBot_on_game_end(self, result) == {Ret(PyNone, self)}

\* --------------------------------------------------- examples/stockfish_bot.py

winning_trash_talk ==
    << PyStr("Calculated. Precise. Inevitable."),
       PyStr("My evaluation says +3. Your evaluation says 'hope'."),
       PyStr("Stockfish sees all. Into the Pit!") >>

\* What the engine process may do with the commands: fail to start, not answer
\* within the timeout, or exit with these lines on stdout (each line split()).
EngineRuns ==
    { [end |-> "FileNotFoundError"],
      [end |-> "TimeoutExpired"],
      [end |-> "exit", stdout |-> << <<"uciok">>, <<"readyok">> >>],
      [end |-> "exit", stdout |-> << <<"readyok">>, <<"bestmove">> >>],
      [end |-> "exit", stdout |-> << <<"readyok">>, <<"bestmove", "e2e4", "ponder", "e7e5">> >>],
      [end |-> "exit", stdout |-> << <<"bestmove", "a7a8q">> >>],
      [end |-> "exit", stdout |-> << <<"bestmove", "(none)">> >>] }

\* StockfishBot._get_stockfish_move on one run of the engine: the first
\* bestmove line with a second word, cut into from, to and promotion.
get_stockfish_move(run) ==
    IF run.end # "exit"
    THEN Raised(run.end, "engine process failed")
    ELSE LET IsBest(parts) == parts[1] = "bestmove" /\ Len(parts) >= 2
             best == SelectSeq(run.stdout, IsBest)
         IN  IF best = <<>>
             THEN Raised("ValueError", "Could not parse Stockfish output")
             ELSE LET move_str == best[1][2]
                  IN  Returned(PyDict([
                          from |-> PyStr(Slice(move_str, 0, 2)),
                          to |-> PyStr(Slice(move_str, 2, 4)),
                          promotion |-> IF Len(Chars[move_str]) > 4
                                        THEN PyStr(Str(<<Chars[move_str][5]>>))
                                        ELSE PyNone]))

\* The outcome of a call in which the Stockfish subprocess ended as `run`.
EngineRan(outcome, run) ==
    [k \in DOMAIN outcome \cup {"engine"} |->
        IF k = "engine" THEN run ELSE outcome[k]]

\* random.choice(valid_moves) followed by best_move["from"], best_move["to"].
random_valid_move(valid_moves) ==
    { IF "from" \notin DOMAIN m.v THEN Raised("KeyError", "'from'")
      ELSE IF "to" \notin DOMAIN m.v THEN Raised("KeyError", "'to'")
      ELSE Returned(PyDict([from |-> m.v["from"], to |-> m.v["to"]]))
      : m \in RandomChoice(valid_moves) }

StockfishBot_make_move_without_except(self, game_state) ==
    IF game_state.py # "dict"
    THEN {Exc("AttributeError", NoAttributeGet(game_state), self)}
    ELSE IF ~Truthy(Get(game_state, "validMoves", PyList(<<>>)))
    THEN {Exc("ValueError", "No valid moves!", self)}
    ELSE UNION {
           LET best_move == get_stockfish_move(run)
           IN  IF best_move.raised
               THEN {EngineRan(Exc(best_move.type, best_move.msg, self), run)}
               ELSE {EngineRan(Ret(PyDict([action |-> best_move.value,
                                           trashTalk |-> trash_talk]), self), run)
                       : trash_talk \in RandomChoice(winning_trash_talk)}
           : run \in EngineRuns }

\* StockfishBot.make_move: the engine's move, or on any engine failure a
\* random valid move's from and to.
StockfishBot_make_move(self, game_state) ==
    IF game_state.py # "dict"
    THEN {Exc("AttributeError", NoAttributeGet(game_state), self)}
    ELSE IF ~Truthy(Get(game_state, "validMoves", PyList(<<>>)))
    THEN {Exc("ValueError", "No valid moves!", self)}
    ELSE UNION {
           LET engine == get_stockfish_move(run)
               best_moves == IF engine.raised
                             THEN random_valid_move(game_state.v["validMoves"].v)
                             ELSE {engine}
           IN  UNION {
                 IF best_move.raised
                 THEN {EngineRan(Exc(best_move.type, best_move.msg, self), run)}
                 ELSE {EngineRan(Ret(PyDict([action |-> best_move.value,
                                             trashTalk |-> trash_talk]), self), run)
                         : trash_talk \in RandomChoice(winning_trash_talk)}
                 : best_move \in best_moves }
           : run \in EngineRuns }

\* StockfishBot.on_game_start: yourColor is read for the print.
StockfishBot_on_game_start(self, game_state) ==
    IF game_state.py # "dict"
    THEN {Exc("AttributeError", NoAttributeGet(game_state), self)}
    ELSE {Ret(PyNone, self)}

\* StockfishBot.on_game_end: a print.
StockfishBot_on_game_end(self, result) == {Ret(PyNone, self)}

\* ------------------------------------------------ a subclass written by a user

\* An Agent subclass outside the repository: its make_move may return a dict,
\* a dict holding a value json cannot write, a MoveResponse object, or raise;
\* its hooks may raise.
UserAgent_make_move(self, game_state) ==
    { Ret(PyDict([action |-> PyStr("resign")]), self),
      Ret(MoveResponse_to_dict(PyStr("resign"), PyNone), self),
      Ret(PyDict([action |-> PyInstance("Move")]), self),
      Ret(PyInstance("MoveResponse"), self),
      Exc("RuntimeError", "boom", self) }

UserAgent_on_game_start(self, game_state) ==
    {Ret(PyNone, self), Exc("RuntimeError", "boom", self)}

UserAgent_on_game_end(self, result) ==
    {Ret(PyNone, self), Exc("RuntimeError", "boom", self)}

\* ------------------------------------------------------- method resolution

\* self.make_move(game_state) on the bound agent's class.
make_move(self, game_state) ==
    CASE self.cls = "ChessAgent" -> ChessAgent_make_move(self, game_state)
      [] self.cls = "SimpleChessBot" -> SimpleChessBot_make_move(self, game_state)
      [] self.cls = "StockfishBot" -> StockfishBot_make_move(self, game_state)
      [] self.cls = "TriviaAgent" -> TriviaAgent_make_move(self, game_state)
      [] self.cls = "UserAgent" -> UserAgent_make_move(self, game_state)

on_game_start(self, game_state) ==
    CASE self.cls = "SimpleChessBot" -> SimpleChessBot_on_game_start(self, game_state)
      [] self.cls = "StockfishBot" -> StockfishBot_on_game_start(self, game_state)
      [] self.cls = "UserAgent" -> UserAgent_on_game_start(self, game_state)
      [] OTHER -> Agent_on_game_start(self, game_state)

on_game_end(self, result) ==
    CASE self.cls = "SimpleChessBot" -> SimpleChessBot_on_game_end(self, result)
      [] self.cls = "StockfishBot" -> StockfishBot_on_game_end(self, result)
      [] self.cls = "UserAgent" -> UserAgent_on_game_end(self, result)
      [] OTHER -> Agent_on_game_end(self, result)

\* The agents as constructed: ChessAgent("Default Bot"), SimpleChessBot(),
\* StockfishBot(), TriviaAgent("Quiz Bot"), and the user's subclass.
Agents ==
    { [cls |-> "ChessAgent", name |-> "Default Bot", description |-> ""],
      [cls |-> "SimpleChessBot", name |-> "Simple Bot",
       description |-> "A basic chess bot for testing", move_count |-> 0],
      [cls |-> "StockfishBot", name |-> "Stockfish Bot",
       description |-> "Powered by the Stockfish chess engine"],
      [cls |-> "TriviaAgent", name |-> "Quiz Bot", description |-> ""],
      [cls |-> "UserAgent", name |-> "User Bot", description |-> ""] }

\* ------------------------------------------------------------------ requests

\* Valid moves as the orchestrator sends them: a quiet move, a central pawn
\* move, a check, a capture, and an entry that lacks from and to.
MoveCatalog ==
    << JObject([from |-> JString("a2"), to |-> JString("a3"), san |-> JString("a3")]),
       JObject([from |-> JString("e2"), to |-> JString("e4"), san |-> JString("e4")]),
       JObject([from |-> JString("d1"), to |-> JString("h5"), san |-> JString("Qh5+")]),
       JObject([from |-> JString("d4"), to |-> JString("e5"), san |-> JString("dxe5")]),
       JObject([san |-> JString("h4")]) >>

\* The validMoves lists of the model: the sublists of the catalog, up to
\* MaxMoves entries.
MoveLists ==
    UNION { { [i \in 1..n |-> MoveCatalog[idx[i]]] :
                idx \in { f \in [1..n -> DOMAIN MoveCatalog] :
                            \A i \in 1..n, k \in 1..n : i < k => f[i] < f[k] } }
            : n \in 0..MaxMoves }

\* gameState values: no JSON object, an empty object, and objects with validMoves.
GameStates ==
    {JArray(<<>>), JObject(NoMembers)}
        \cup {JObject([validMoves |-> JArray(ms)]) : ms \in MoveLists}

\* Request bodies: none, bytes that are no JSON, a JSON array, and objects with
\* and without the gameState and result keys.
Bodies ==
    {EmptyBody, GarbageBody, JsonBody(JArray(<<>>)), JsonBody(JObject(NoMembers)),
     JsonBody(JObject([result |-> JObject(NoMembers)]))}
        \cup {JsonBody(JObject([gameState |-> gs])) : gs \in GameStates}

PostRoutes == {"/move", "/game-start", "/game-end"}

Paths == {"/health", "/info", "/unknown"} \cup PostRoutes

\* The requests clients send. A body is read by the three POST routes only, so
\* the other requests are sent without one.
Requests ==
    {[method |-> "POST", path |-> p, body |-> b] : p \in PostRoutes, b \in Bodies}
        \cup {[method |-> m, path |-> p, body |-> EmptyBody] :
                m \in {"GET", "PUT"}, p \in Paths}
        \cup {[method |-> "POST", path |-> p, body |-> EmptyBody] :
                p \in Paths \ PostRoutes}

\* A POST to one of the three routes whose body is a JSON object.
WellFormed(req) ==
    /\ req.method = "POST"
    /\ req.path \in PostRoutes
    /\ req.body.raw = "json"
    /\ req.body.doc.j = "object"

\* do_POST with the hooks of /game-start and /game-end exchanged.
do_POST_hook_exchanged(path) ==
    CASE path = "/move" -> "make_move"
      [] path = "/game-start" -> "on_game_end"
      [] path = "/game-end" -> "on_game_start"

\* do_POST with the /game-end branch pasted from /game-start and not edited.
do_POST_hook_pasted(path) ==
    CASE path = "/move" -> "make_move"
      [] path = "/game-start" -> "on_game_start"
      [] path = "/game-end" -> "on_game_start"

\* The hook each branch of do_POST calls.
do_POST_hook(path) ==
    CASE path = "/move" -> "make_move"
      [] path = "/game-start" -> "on_game_start"
      [] path = "/game-end" -> "on_game_end"

\* ----------------------------------------------------------------- server.py

StatusLine(code) == [w |-> "status", code |-> code]

Headers(ctype) == [w |-> "headers", ctype |-> ctype]

Body(bytes) == [w |-> "body", bytes |-> bytes]

\* AgentRequestHandler._send_json: the status line and the headers go out with
\* end_headers, then json.dumps(data) is evaluated and may raise before the
\* body is written.
send_json(out, data, status) ==
    LET head == out \o <<StatusLine(status), Headers("application/json")>>
        text == json_dumps(data)
    IN  IF text.raised
        THEN [raised |-> TRUE, msg |-> text.msg, out |-> head]
        ELSE [raised |-> FALSE, out |-> Append(head, Body(JsonBody(text.value)))]

\* AgentRequestHandler._send_error
send_error(out, status, message) ==
    send_json(out, PyDict([error |-> PyStr(message)]), status).out

StatusOk == PyDict([status |-> PyStr("ok")])

\* do_GET without its /health branch.
do_GET_without_health(self, path) ==
    IF path = "/info"
    THEN send_json(<<>>, PyDict([name |-> PyStr(self.name),
                                description |-> PyStr(self.description),
                                gameType |-> PyStr(game_type(self))]), 200).out
    ELSE send_error(<<>>, 404, "Not found")

\* AgentRequestHandler.do_GET
do_GET(self, path) ==
    IF path = "/health" THEN send_json(<<>>, StatusOk, 200).out
    ELSE IF path = "/info"
    THEN send_json(<<>>, PyDict([name |-> PyStr(self.name),
                                description |-> PyStr(self.description),
                                gameType |-> PyStr(game_type(self))]), 200).out
    ELSE send_error(<<>>, 404, "Not found")

\* The key each route reads from the body.
BodyKey(path) == IF path = "/game-end" THEN "result" ELSE "gameState"

\* do_POST up to the call of the hook: the body is read and parsed, and the
\* hook's argument is data.get(key, {}).
read_argument(req) ==
    LET data == json_loads(req.body)
    IN  IF data.raised THEN data
        ELSE IF data.value.py # "dict"
        THEN Raised("AttributeError", NoAttributeGet(data.value))
        ELSE Returned(Get(data.value, BodyKey(req.path), PyDict(EmptyMembers)))

\* do_POST without its /game-end branch.
do_POST_routes_without_end == {"/move", "/game-start"}

\* The routes of do_POST.
do_POST_routes == {"/move", "/game-start", "/game-end"}

\* self.agent.<hook>(argument)
call_hook(hook, self, argument) ==
    CASE hook = "make_move" -> make_move(self, argument)
      [] hook = "on_game_start" -> on_game_start(self, argument)
      [] hook = "on_game_end" -> on_game_end(self, argument)

\* do_POST without its except clauses: an exception leaves the handler and
\* nothing is written.
respond_uncaught(hook, outcome) ==
    IF outcome.raised
    THEN <<>>
    ELSE send_json(<<>>, IF hook = "make_move" THEN outcome.value ELSE StatusOk, 200).out

\* do_POST after the hook: its value (or {"status": "ok"}) is sent, and any
\* Exception of the try block is answered by _send_error(500, str(e)).
respond(hook, outcome) ==
    IF outcome.raised
    THEN send_error(<<>>, 500, outcome.msg)
    ELSE LET sent == send_json(<<>>, IF hook = "make_move" THEN outcome.value
                                     ELSE StatusOk, 200)
         IN  IF sent.raised
             THEN send_error(sent.out, 500, sent.msg)
             ELSE sent.out

\* BaseHTTPRequestHandler.send_error for a method the handler class has no
\* do_<METHOD> for.
unsupported_method == <<StatusLine(501), Headers("text/html"), Body([raw |-> "html"])>>

\* The methods AgentRequestHandler defines.
HandlerMethods == {"GET", "POST"}

\* A ThreadingHTTPServer: each connection gets its handler at once.
may_accept_threading(active) == TRUE

\* HTTPServer.serve_forever takes the next connection only when the handler of
\* the previous one has returned.
may_accept(active) == active = {}

\* --------------------------------------------------------------- the system

VARIABLES
    agent,      \* the Agent instance bound to the server, with its private state
    server,     \* AgentServer.run: where it is, and its listening socket
    backlog,    \* clients connected to the port and not yet accepted
    handlers,   \* the request handler of each accepted connection
    requests,   \* the paths of the well-formed POST requests received, in order
    calls,      \* the hooks called on the agent, in order
    \* A process in which several AgentServer objects are run, each in a thread:
    handler_agent,  \* the class attribute AgentRequestHandler.agent
    servers,        \* each AgentServer: where its run() is, and its self.agent
    heap,           \* the Agent instances those servers were constructed with
    served          \* which server received each request, which agent handled it

serverVars == <<agent, server, backlog, handlers, requests, calls>>

processVars == <<handler_agent, servers, heap, served>>

vars == <<agent, server, backlog, handlers, requests, calls,
          handler_agent, servers, heap, served>>

NoOutcome == [raised |-> FALSE, value |-> PyNone]

\* No engine subprocess was started by the call.
NoEngine == [end |-> "not_run"]

\* One AgentServer only: no further servers are constructed in the process.
NoFurtherServers ==
    /\ handler_agent = "None"
    /\ servers = [s \in {} |-> 0]
    /\ heap = [r \in {} |-> 0]
    /\ served = <<>>

\* The state after construction and the start of run(): one agent, the socket
\* bound and listening, serve_forever entered.
Init ==
    /\ agent \in Agents
    /\ server = [pc |-> "serve_forever", socket |-> "listening"]
    /\ backlog = {}
    /\ handlers = [c \in {} |-> 0]
    /\ requests = <<>>
    /\ calls = <<>>
    /\ NoFurtherServers

\* A client connects; the connection waits in the listening socket's queue.
Connect(c) ==
    /\ server.socket = "listening"
    /\ c \notin backlog
    /\ c \notin DOMAIN handlers
    /\ backlog' = backlog \cup {c}
    /\ UNCHANGED <<agent, server, handlers, requests, calls>>
    /\ UNCHANGED processVars

\* serve_forever accepts a connection and the handler reads the request line
\* and the headers of the request the client sends.
Accept(c) ==
    /\ server.pc = "serve_forever"
    /\ c \in backlog
    /\ may_accept(DOMAIN handlers)
    /\ \E req \in Requests :
        /\ WellFormed(req) => Len(requests) < MaxCalls
        /\ handlers' = handlers @@
              (c :> [pc |-> "parsed", req |-> req, before |-> agent, hook |-> "none",
                     argument |-> PyNone, outcome |-> NoOutcome,
                     engine |-> NoEngine, out |-> <<>>])
        /\ requests' = IF WellFormed(req) THEN Append(requests, req.path) ELSE requests
    /\ backlog' = backlog \ {c}
    /\ UNCHANGED <<agent, server, calls>>
    /\ UNCHANGED processVars

\* handle_one_request: the method is looked up, and do_GET or do_POST runs up
\* to its response or to the call of the hook.
Handle(c) ==
    /\ c \in DOMAIN handlers
    /\ handlers[c].pc = "parsed"
    /\ LET h == handlers[c]
           req == h.req
           argument == read_argument(req)
       IN  IF req.method \notin HandlerMethods
           THEN /\ handlers' = [handlers EXCEPT ![c] =
                        [h EXCEPT !.pc = "responded", !.out = unsupported_method]]
                /\ calls' = calls
           ELSE IF req.method = "GET"
           THEN /\ handlers' = [handlers EXCEPT ![c] =
                        [h EXCEPT !.pc = "responded", !.out = do_GET(agent, req.path)]]
                /\ calls' = calls
           ELSE IF req.path \notin do_POST_routes
           THEN /\ handlers' = [handlers EXCEPT ![c] =
                        [h EXCEPT !.pc = "responded",
                                  !.out = send_error(<<>>, 404, "Not found")]]
                /\ calls' = calls
           ELSE IF argument.raised
           THEN /\ handlers' = [handlers EXCEPT ![c] =
                        [h EXCEPT !.pc = "responded",
                                  !.out = send_error(<<>>, 500, argument.msg)]]
                /\ calls' = calls
           ELSE /\ handlers' = [handlers EXCEPT ![c] =
                        [h EXCEPT !.pc = "in_agent", !.hook = do_POST_hook(req.path),
                                  !.argument = argument.value]]
                /\ calls' = Append(calls, do_POST_hook(req.path))
    /\ UNCHANGED <<agent, server, backlog, requests>>
    /\ UNCHANGED processVars

\* The hook returns or raises, and do_POST writes the response.
Return(c) ==
    /\ c \in DOMAIN handlers
    /\ handlers[c].pc = "in_agent"
    /\ \E outcome \in call_hook(handlers[c].hook, agent, handlers[c].argument) :
        /\ agent' = outcome.self
        /\ handlers' = [handlers EXCEPT ![c] =
              [@ EXCEPT !.pc = "responded",
                        !.outcome = IF outcome.raised
                                    THEN Raised(outcome.type, outcome.msg)
                                    ELSE Returned(outcome.value),
                        !.engine = IF "engine" \in DOMAIN outcome
                                   THEN outcome.engine ELSE NoEngine,
                        !.out = respond(handlers[c].hook, outcome)]]
    /\ UNCHANGED <<server, backlog, requests, calls>>
    /\ UNCHANGED processVars

\* The handler returns and the connection is closed.
Finish(c) ==
    /\ c \in DOMAIN handlers
    /\ handlers[c].pc = "responded"
    /\ handlers' = [d \in DOMAIN handlers \ {c} |-> handlers[d]]
    /\ UNCHANGED <<agent, server, backlog, requests, calls>>
    /\ UNCHANGED processVars

\* Ctrl-C: KeyboardInterrupt ends serve_forever, whatever it was doing, and
\* run() calls server.shutdown() and returns. The socket is not closed.
KeyboardInterrupt ==
    /\ server.pc = "serve_forever"
    /\ server' = [server EXCEPT !.pc = "returned"]
    /\ handlers' = [c \in {} |-> 0]
    /\ UNCHANGED <<agent, backlog, requests, calls>>
    /\ UNCHANGED processVars

\* After run() has returned nothing refers to its local HTTPServer any more:
\* whenever the interpreter reclaims it, the socket's finalizer closes the
\* socket and the connections still queued on it are dropped.
Finalize ==
    /\ server.pc = "returned"
    /\ server.socket = "listening"
    /\ server' = [server EXCEPT !.socket = "closed"]
    /\ backlog' = {}
    /\ UNCHANGED <<agent, handlers, requests, calls>>
    /\ UNCHANGED processVars

Next ==
    \/ \E c \in Clients : Connect(c)
    \/ \E c \in Clients : Accept(c)
    \/ \E c \in Clients : Handle(c)
    \/ \E c \in Clients : Return(c)
    \/ \E c \in Clients : Finish(c)
    \/ KeyboardInterrupt
    \/ Finalize

Spec == Init /\ [][Next]_vars

\* ------------------------------------------------ two servers in one process

\* Two AgentServer objects, on different ports, and the Agent instance each
\* was constructed with.
Servers == {"A", "B"}

AgentOf(s) == IF s = "A" THEN "a" ELSE "b"

\* The requests sent to the two servers: GET /info, and the POSTs that reach
\* a hook.
ServedRequests ==
    {req \in Requests :
        \/ req.method = "GET" /\ req.path = "/info"
        \/ WellFormed(req) /\ ~read_argument(req).raised}

\* Two distinct agents are constructed and each is given to its AgentServer;
\* neither run() has been called yet.
InitTwoServers ==
    /\ heap \in {h \in [{AgentOf(s) : s \in Servers} -> Agents] : h["a"] # h["b"]}
    /\ servers = [s \in Servers |-> [pc |-> "constructed", agent |-> AgentOf(s)]]
    /\ handler_agent = "None"
    /\ served = <<>>
    /\ agent = PyNone
    /\ server = [pc |-> "constructed", socket |-> "unbound"]
    /\ backlog = {}
    /\ handlers = [c \in {} |-> 0]
    /\ requests = <<>>
    /\ calls = <<>>

\* AgentServer.run in a thread of its own: the handler class's attribute is
\* set to this server's agent, and the server is bound and serves.
Run(s) ==
    /\ servers[s].pc = "constructed"
    /\ handler_agent' = servers[s].agent
    /\ servers' = [servers EXCEPT ![s].pc = "serve_forever"]
    /\ UNCHANGED <<heap, served>>
    /\ UNCHANGED serverVars

\* Server s handles one request: its handler reads self.agent, which is the
\* class attribute, and do_GET reads that agent or do_POST calls its hook.
Serve(s, req) ==
    /\ servers[s].pc = "serve_forever"
    /\ Len(served) < MaxCalls
    /\ IF req.method = "GET"
       THEN heap' = heap
       ELSE \E outcome \in call_hook(do_POST_hook(req.path), heap[handler_agent],
                                     read_argument(req).value) :
               heap' = [heap EXCEPT ![handler_agent] = outcome.self]
    /\ served' = Append(served, [server |-> s, agent |-> handler_agent])
    /\ UNCHANGED <<handler_agent, servers>>
    /\ UNCHANGED serverVars

NextTwoServers ==
    \/ \E s \in Servers : Run(s)
    \/ \E s \in Servers : \E req \in ServedRequests : Serve(s, req)

SpecTwoServers == InitTwoServers /\ [][NextTwoServers]_vars

\* ------------------------------------------------------- reading responses

\* The handlers whose response is written and whose connection is still open.
Responded == {c \in DOMAIN handlers : handlers[c].pc = "responded"}

\* The status the client reads: that of the first status line.
StatusRead(out) == out[1].code

Is2xx(code) == code \in 200..299

\* One status line, the headers and one body, in that order.
OneResponse(out) ==
    /\ Len(out) = 3
    /\ out[1].w = "status"
    /\ out[2].w = "headers"
    /\ out[3].w = "body"

\* One response whose body is a JSON object.
JsonObjectResponse(out) ==
    /\ OneResponse(out)
    /\ out[2].ctype = "application/json"
    /\ out[3].bytes.raw = "json"
    /\ out[3].bytes.doc.j = "object"

\* The members of the JSON object a response carries.
Members(out) == out[3].bytes.doc.members

\* A non-2xx response whose body is {"error": <string>}.
ErrorResponse(out) ==
    /\ JsonObjectResponse(out)
    /\ ~Is2xx(StatusRead(out))
    /\ DOMAIN Members(out) = {"error"}
    /\ Members(out)["error"].j = "string"

ShippedAgents == {"ChessAgent", "SimpleChessBot", "StockfishBot"}

\* A POST /move whose gameState is absent, or has no validMoves, or an empty one.
EmptyValidMoves(req) ==
    /\ WellFormed(req)
    /\ req.path = "/move"
    /\ LET body == req.body.doc.members
       IN  \/ "gameState" \notin DOMAIN body
           \/ /\ body["gameState"].j = "object"
              /\ \/ "validMoves" \notin DOMAIN body["gameState"].members
                 \/ body["gameState"].members["validMoves"] = JArray(<<>>)

\* ------------------------------------------------------------------ claims

\* C1: for ChessAgent, SimpleChessBot and StockfishBot, a POST /move whose
\* gameState has an empty or absent validMoves list is answered with a non-2xx
\* status and a body {"error": <non-empty string>}, never with a 200.
C1_EmptyValidMovesIsAnError ==
    \A c \in Responded :
        (agent.cls \in ShippedAgents /\ EmptyValidMoves(handlers[c].req)) =>
            /\ ErrorResponse(handlers[c].out)
            /\ Members(handlers[c].out)["error"].s # ""

C1_Witness ==
    \E c \in Responded :
        /\ agent.cls = "StockfishBot"
        /\ handlers[c].req.method = "POST"
        /\ handlers[c].req.path = "/move"
        /\ handlers[c].req.body =
              JsonBody(JObject([gameState |-> JObject([validMoves |-> JArray(<<>>)])]))
        /\ handlers[c].hook = "make_move"

\* C2: GET /health is answered 200 {"status": "ok"} after any earlier requests,
\* failed ones included.
C2_HealthAlwaysOk ==
    \A c \in Responded :
        (handlers[c].req.method = "GET" /\ handlers[c].req.path = "/health") =>
            handlers[c].out =
                << StatusLine(200), Headers("application/json"),
                   Body(JsonBody(JObject([status |-> JString("ok")]))) >>

\* A /health answered after a /move that TriviaAgent.make_move failed.
C2_Witness ==
    \E c \in Responded :
        /\ handlers[c].req.method = "GET"
        /\ handlers[c].req.path = "/health"
        /\ agent.cls = "TriviaAgent"
        /\ calls = <<"make_move">>

\* The request sequence /game-start, /move x N, /game-end.
Lifecycle(log) ==
    /\ Len(log) >= 2
    /\ log[1] = "/game-start"
    /\ log[Len(log)] = "/game-end"
    /\ \A i \in 2..(Len(log) - 1) : log[i] = "/move"

\* C3: once the requests /game-start, N x /move, /game-end have been handled,
\* the agent has received exactly on_game_start, N x make_move, on_game_end,
\* in that order.
C3_LifecycleCallsInOrder ==
    ( /\ server.pc = "serve_forever"
      /\ \A c \in DOMAIN handlers : handlers[c].pc # "parsed"
      /\ Lifecycle(requests) ) =>
        /\ Len(calls) = Len(requests)
        /\ calls[1] = "on_game_start"
        /\ calls[Len(calls)] = "on_game_end"
        /\ \A i \in 2..(Len(calls) - 1) : calls[i] = "make_move"

C3_Witness ==
    /\ requests = <<"/game-start", "/move", "/move", "/game-end">>
    /\ handlers = <<>>
    /\ server.pc = "serve_forever"
    /\ Len(calls) = 4

\* C6: when the hook raises, the request is answered with a non-2xx status
\* and the body {"error": str(e)}, and serve_forever goes on.
C6_HookErrorIsAnswered ==
    \A c \in Responded :
        handlers[c].outcome.raised =>
            /\ ErrorResponse(handlers[c].out)
            /\ Members(handlers[c].out)["error"].s = handlers[c].outcome.msg
            /\ server.pc = "serve_forever"

C6_Witness ==
    \E c \in Responded :
        /\ handlers[c].outcome.raised
        /\ handlers[c].hook = "on_game_end"

\* The hook a well-formed POST is for.
HookFor(path) ==
    CASE path = "/move" -> "make_move"
      [] path = "/game-start" -> "on_game_start"
      [] path = "/game-end" -> "on_game_end"

\* C8: a well-formed POST /move, /game-start or /game-end is dispatched to its
\* hook whatever was received before it: no lifecycle position rejects it.
C8_DispatchedInAnyOrder ==
    \A c \in DOMAIN handlers :
        (handlers[c].pc # "parsed" /\ WellFormed(handlers[c].req)) =>
            handlers[c].hook = HookFor(handlers[c].req.path)

\* make_move before any game-start and again after a game-end, and a
\* game-start straight after a game-start.
C8_Witness ==
    /\ requests = <<"/move", "/game-end", "/game-start", "/game-start">>
    /\ calls = <<"make_move", "on_game_end", "on_game_start", "on_game_start">>

\* C9: at no time are two requests in their handlers at once, so no two hook
\* calls are in progress together, however many clients are connected.
C9_OneRequestAtATime ==
    \A c \in DOMAIN handlers, d \in DOMAIN handlers : c = d

\* A hook call in progress while another client is connected and waiting.
C9_Witness ==
    \E c \in DOMAIN handlers :
        /\ handlers[c].pc = "in_agent"
        /\ backlog # {}

\* C4: in a 200 response to POST /move by a shipped agent, the body is a JSON
\* object with an action, and a trashTalk key is there only with a non-empty
\* string: no commentary means no key.
C4_TrashTalkOmittedWhenAbsent ==
    \A c \in Responded :
        ( /\ agent.cls \in ShippedAgents
          /\ handlers[c].req.method = "POST"
          /\ handlers[c].req.path = "/move"
          /\ StatusRead(handlers[c].out) = 200 ) =>
            /\ JsonObjectResponse(handlers[c].out)
            /\ "action" \in DOMAIN Members(handlers[c].out)
            /\ "trashTalk" \in DOMAIN Members(handlers[c].out) =>
                  /\ Members(handlers[c].out)["trashTalk"].j = "string"
                  /\ Members(handlers[c].out)["trashTalk"].s # ""

\* A POST to one of the three routes whose body is missing, is no JSON, is no
\* JSON object, or lacks the key of its route.
Malformed(req) ==
    /\ req.method = "POST"
    /\ req.path \in PostRoutes
    /\ \/ req.body.raw # "json"
       \/ req.body.doc.j # "object"
       \/ BodyKey(req.path) \notin DOMAIN req.body.doc.members

\* C5: a malformed POST /move, /game-start or /game-end is answered with a
\* non-2xx status and leaves the agent as it was before the request.
C5_MalformedRequestRejected ==
    \A c \in Responded :
        Malformed(handlers[c].req) =>
            /\ ~Is2xx(StatusRead(handlers[c].out))
            /\ agent = handlers[c].before

\* The five routes of the protocol.
DefinedRoute(req) ==
    \/ req.method = "GET" /\ req.path \in {"/health", "/info"}
    \/ req.method = "POST" /\ req.path \in PostRoutes

\* C7: a request for anything but the five routes, whatever its method, is
\* answered 404 {"error": "Not found"} and calls no hook.
C7_UnknownRouteIs404 ==
    \A c \in Responded :
        ~DefinedRoute(handlers[c].req) =>
            /\ handlers[c].out =
                  << StatusLine(404), Headers("application/json"),
                     Body(JsonBody(JObject([error |-> JString("Not found")]))) >>
            /\ handlers[c].hook = "none"

\* C10: a request to one of the three POST routes gets exactly one response:
\* one status line and one body, also when the hook raises or its value
\* cannot be written as JSON.
C10_ExactlyOneResponse ==
    \A c \in Responded :
        (handlers[c].req.method = "POST" /\ handlers[c].req.path \in PostRoutes) =>
            /\ Cardinality({i \in DOMAIN handlers[c].out :
                              handlers[c].out[i].w = "status"}) = 1
            /\ Cardinality({i \in DOMAIN handlers[c].out :
                              handlers[c].out[i].w = "body"}) = 1

\* The validMoves entries a POST /move carries; none when the body has no
\* gameState object with a validMoves array.
ValidMovesSent(req) ==
    IF /\ WellFormed(req)
       /\ "gameState" \in DOMAIN req.body.doc.members
       /\ req.body.doc.members["gameState"].j = "object"
       /\ "validMoves" \in DOMAIN req.body.doc.members["gameState"].members
    THEN req.body.doc.members["gameState"].members["validMoves"].items
    ELSE <<>>

\* Every entry is a move as the orchestrator documents it: it has from and to.
MovesHaveFromTo(req) ==
    \A i \in DOMAIN ValidMovesSent(req) :
        {"from", "to"} \subseteq DOMAIN ValidMovesSent(req)[i].members

\* The response is a JSON object whose action has the from and to of an entry
\* of the request's validMoves.
ActionIsValidMove(h) ==
    /\ JsonObjectResponse(h.out)
    /\ "action" \in DOMAIN Members(h.out)
    /\ Members(h.out)["action"].j = "object"
    /\ {"from", "to"} \subseteq DOMAIN Members(h.out)["action"].members
    /\ \E i \in DOMAIN ValidMovesSent(h.req) :
         LET m == ValidMovesSent(h.req)[i].members
         IN  /\ {"from", "to"} \subseteq DOMAIN m
             /\ Members(h.out)["action"].members["from"] = m["from"]
             /\ Members(h.out)["action"].members["to"] = m["to"]

\* The engine could not be started, did not answer in time, or exited without
\* a bestmove line that parses.
EngineFailed(run) == run # NoEngine /\ get_stockfish_move(run).raised

\* A POST /move to the StockfishBot with a non-empty validMoves list of moves,
\* answered after the engine failed.
FellBack(h) ==
    /\ h.before.cls = "StockfishBot"
    /\ h.hook = "make_move"
    /\ ValidMovesSent(h.req) # <<>>
    /\ MovesHaveFromTo(h.req)
    /\ EngineFailed(h.engine)

\* C11: when the engine process fails in any way on a non-empty validMoves
\* list, StockfishBot.make_move raises nothing and POST /move answers 200 with
\* an action that is the from and to of a member of validMoves.
C11_EngineFailureFallsBack ==
    \A c \in Responded :
        FellBack(handlers[c]) =>
            /\ ~handlers[c].outcome.raised
            /\ StatusRead(handlers[c].out) = 200
            /\ ActionIsValidMove(handlers[c])

\* The engine did not answer within the timeout and the fallback answered.
C11_Witness ==
    \E c \in Responded :
        /\ FellBack(handlers[c])
        /\ handlers[c].engine.end = "TimeoutExpired"
        /\ Len(ValidMovesSent(handlers[c].req)) = MaxMoves
        /\ StatusRead(handlers[c].out) = 200

\* ---------------------------------------------------------- the opening window

\* A SimpleChessBot that has played all but two moves of its opening window,
\* its server started as in Init.
InitOpening ==
    /\ agent \in {[a EXCEPT !.move_count = OpeningWindow - 2] :
                    a \in {b \in Agents : b.cls = "SimpleChessBot"}}
    /\ server = [pc |-> "serve_forever", socket |-> "listening"]
    /\ backlog = {}
    /\ handlers = [c \in {} |-> 0]
    /\ requests = <<>>
    /\ calls = <<>>
    /\ NoFurtherServers

SpecOpening == InitOpening /\ [][Next]_vars

\* The san of a validMoves entry, "" when it has none.
San(m) == IF "san" \in DOMAIN m.members THEN m.members["san"].s ELSE ""

\* The entries (by position) of each tier of the selection policy.
CaptureTier(ms) == {i \in DOMAIN ms : Contains(San(ms[i]), "x")}

CheckTier(ms) ==
    {i \in DOMAIN ms : Contains(San(ms[i]), "+") \/ Contains(San(ms[i]), "#")}

CenterTier(ms) ==
    {i \in DOMAIN ms : /\ "to" \in DOMAIN ms[i].members
                       /\ ms[i].members["to"].s \in CenterSquares}

\* The highest-priority non-empty tier; the centre counts in the opening only.
TopTier(ms, opening) ==
    IF CaptureTier(ms) # {} THEN CaptureTier(ms)
    ELSE IF CheckTier(ms) # {} THEN CheckTier(ms)
    ELSE IF opening /\ CenterTier(ms) # {} THEN CenterTier(ms)
    ELSE DOMAIN ms

\* The call is one of the agent's first OpeningWindow - 1 moves of the game.
InOpening(h) == h.before.move_count + 1 < OpeningWindow

\* The positions of the validMoves entries the answered action names.
Selected(h) ==
    {i \in DOMAIN ValidMovesSent(h.req) :
        LET m == ValidMovesSent(h.req)[i].members
            action == Members(h.out)["action"].members
        IN  /\ {"from", "to"} \subseteq DOMAIN m
            /\ action["from"] = m["from"]
            /\ action["to"] = m["to"]}

\* A POST /move that the SimpleChessBot answered with a move.
SimpleBotMoved(h) ==
    /\ h.before.cls = "SimpleChessBot"
    /\ h.hook = "make_move"
    /\ StatusRead(h.out) = 200

\* C12: the move SimpleChessBot selects from a non-empty validMoves list is in
\* the highest-priority non-empty tier: captures, else checks and mates, else
\* (in the opening window only) moves to a central square, else any move; and
\* a list of moves is always answered with a move.
C12_SelectsFromTopTier ==
    \A c \in Responded :
        LET h == handlers[c] IN
        /\ SimpleBotMoved(h) =>
              /\ ActionIsValidMove(h)
              /\ Selected(h) # {}
              /\ Selected(h) \subseteq TopTier(ValidMovesSent(h.req), InOpening(h))
        /\ (/\ h.before.cls = "SimpleChessBot"
            /\ h.hook = "make_move"
            /\ ValidMovesSent(h.req) # <<>>
            /\ MovesHaveFromTo(h.req)) => SimpleBotMoved(h)

\* Past the opening window, with a central move and a quiet move to choose
\* from, the quiet move was selected: the centre tier no longer applies.
C12_Witness ==
    \E c \in Responded :
        LET h == handlers[c] IN
        /\ SimpleBotMoved(h)
        /\ ~InOpening(h)
        /\ CaptureTier(ValidMovesSent(h.req)) = {}
        /\ CheckTier(ValidMovesSent(h.req)) = {}
        /\ CenterTier(ValidMovesSent(h.req)) # {}
        /\ Selected(h) \cap CenterTier(ValidMovesSent(h.req)) = {}

\* In the opening window, with a central move and a quiet move to choose from,
\* the central move was selected.
C12_OpeningWitness ==
    \E c \in Responded :
        LET h == handlers[c] IN
        /\ SimpleBotMoved(h)
        /\ InOpening(h)
        /\ CaptureTier(ValidMovesSent(h.req)) = {}
        /\ CheckTier(ValidMovesSent(h.req)) = {}
        /\ CenterTier(ValidMovesSent(h.req)) # {}
        /\ Len(ValidMovesSent(h.req)) = MaxMoves
        /\ Selected(h) \subseteq CenterTier(ValidMovesSent(h.req))

\* ------------------------------------------------------------ frame and reads

\* A POST to /move, /game-start or /game-end.
PostToHookRoute(req) == req.method = "POST" /\ req.path \in PostRoutes

\* The agent's info as GET /info is to return it.
InfoOf(self) ==
    [name |-> JString(self.name),
     description |-> JString(self.description),
     gameType |-> JString(game_type(self))]

\* C13: GET /health, GET /info and every unmatched route call no hook and leave
\* the agent as it was; GET /info answers the agent's name, description and
\* gameType; a POST to /move, /game-start or /game-end calls at most one hook,
\* the one of its path.
C13_OnlyTheMatchingHook ==
    /\ \A c \in Responded :
         LET h == handlers[c] IN
         /\ ~PostToHookRoute(h.req) => h.hook = "none" /\ agent = h.before
         /\ (h.req.method = "GET" /\ h.req.path = "/info") =>
               /\ JsonObjectResponse(h.out)
               /\ StatusRead(h.out) = 200
               /\ Members(h.out) = InfoOf(h.before)
         /\ PostToHookRoute(h.req) => h.hook \in {"none", HookFor(h.req.path)}
    /\ \A c \in DOMAIN handlers :
         handlers[c].pc = "in_agent" =>
            /\ PostToHookRoute(handlers[c].req)
            /\ handlers[c].hook = HookFor(handlers[c].req.path)
    /\ Len(calls) <= Len(requests)

\* After hooks have changed the agent, a GET /info or an unmatched route was
\* answered and left it as it was.
C13_Witness ==
    /\ \E c \in Responded :
         /\ handlers[c].req.path \in {"/info", "/unknown"}
         /\ handlers[c].req.method \in {"GET", "POST"}
         /\ handlers[c].before.cls = "SimpleChessBot"
         /\ handlers[c].before.move_count > 0
         /\ agent = handlers[c].before
    /\ Len(calls) >= 2

\* The game type the agent had at construction.
ConstructedGameType(cls) ==
    CHOOSE t \in {game_type(a) : a \in {b \in Agents : b.cls = cls}} : TRUE

\* C14: game_type, and the gameType GET /info returns, are what they were at
\* construction, after any requests, successful or failed.
C14_GameTypeIsConstant ==
    /\ game_type(agent) = ConstructedGameType(agent.cls)
    /\ \A c \in Responded :
         (handlers[c].req.method = "GET" /\ handlers[c].req.path = "/info") =>
            /\ JsonObjectResponse(handlers[c].out)
            /\ "gameType" \in DOMAIN Members(handlers[c].out)
            /\ Members(handlers[c].out)["gameType"]
                  = JString(ConstructedGameType(agent.cls))

\* GET /info answered after hook calls that changed the agent's state.
C14_Witness ==
    \E c \in Responded :
        /\ handlers[c].req.method = "GET"
        /\ handlers[c].req.path = "/info"
        /\ agent.cls = "SimpleChessBot"
        /\ agent.move_count >= 2
        /\ Len(calls) >= 3

\* ------------------------------------------------------------------- shutdown

\* C15: once the shutdown signal has been received no request is dispatched
\* to the agent any more, and when run() has returned the listening socket is
\* closed.
C15_ShutdownClosesSocket ==
    server.pc = "returned" =>
        /\ DOMAIN handlers = {}
        /\ server.socket = "closed"

\* C16: with two AgentServer objects run in one process, every request is
\* handled by the agent of the server that received it, whichever run() was
\* called first.
C16_EachServerItsOwnAgent ==
    \A i \in DOMAIN served :
        served[i].agent = servers[served[i].server].agent

\* ------------------------------------------------------------ the move counter

\* The number of make_move calls in the log after its last on_game_start, or
\* in the whole log when it has none.
MovesSinceStart(log) ==
    LET starts == {i \in DOMAIN log : log[i] = "on_game_start"}
        last == IF starts = {} THEN 0
                ELSE CHOOSE i \in starts : \A k \in starts : k <= i
    IN  Cardinality({i \in DOMAIN log : i > last /\ log[i] = "make_move"})

\* No hook is running: every call of the log has returned or raised.
NoHookRunning ==
    /\ server.pc = "serve_forever"
    /\ \A c \in DOMAIN handlers : handlers[c].pc # "in_agent"

\* C17: SimpleChessBot's move_count is 0 right after a successful /game-start,
\* equals the number of make_move invocations since the most recent
\* on_game_start (since construction when there was none), and is left as it
\* is by on_game_end.
C17_MoveCountPerGame ==
    agent.cls = "SimpleChessBot" =>
        /\ NoHookRunning => agent.move_count = MovesSinceStart(calls)
        /\ \A c \in Responded :
             /\ (handlers[c].hook = "on_game_start"
                   /\ StatusRead(handlers[c].out) = 200) => agent.move_count = 0
             /\ handlers[c].hook = "on_game_end" =>
                   agent.move_count = handlers[c].before.move_count

\* A game was started after a move, one move was made in it, and the game was
\* ended: the counter is 1.
C17_Witness ==
    /\ agent.cls = "SimpleChessBot"
    /\ NoHookRunning
    /\ calls = <<"make_move", "on_game_start", "make_move", "on_game_end">>
    /\ agent.move_count = 1
    /\ \E c \in Responded : handlers[c].hook = "on_game_end"

\* ------------------------------------------------------------- implicit claims

\* C18: in every 200 response to POST /move of a shipped agent, the action's
\* from and to are those of a member of the validMoves list of that request
\* (a list of moves, each with from and to), also when StockfishBot answers
\* with the engine's move.
C18_ActionIsAMemberOfValidMoves ==
    \A c \in Responded :
        (/\ handlers[c].before.cls \in ShippedAgents
         /\ handlers[c].hook = "make_move"
         /\ MovesHaveFromTo(handlers[c].req)
         /\ StatusRead(handlers[c].out) = 200) => ActionIsValidMove(handlers[c])

\* C19: a POST /move answered with an error leaves the agent's private state
\* as it was before the request.
C19_FailedMoveLeavesAgentUnchanged ==
    \A c \in Responded :
        (/\ handlers[c].req.method = "POST"
         /\ handlers[c].req.path = "/move"
         /\ ~Is2xx(StatusRead(handlers[c].out))) => agent = handlers[c].before

====
